---- MODULE Spec2Model ----
(***************************************************************************)
(* Model of the duplicate detection engine of fdup (src/fdup/fduplib.py):  *)
(* the hasher with stability check and retry, the cache-hit rule, size     *)
(* triage, the cache lookup pass, the sequential and pooled hash phases    *)
(* and the grouping of records by digest or by name; the exporters of the  *)
(* group map (JSON files and cleanup script).                              *)
(***************************************************************************)
EXTENDS Integers, Sequences, FiniteSets, TLC

VARIABLES
    args,           \* the parsed arguments handed to the engine
    fs,             \* the file system: path -> current file state
    cacheFile,      \* the persisted cache file: [present, writable, form, entries]
    pc,             \* position of the program
    run,            \* number of the current run (runs share cacheFile)
    files,          \* discovered records in root-then-discovery order
    cache_entries,  \* in-memory cache mapping: cache key (path) -> entry
    duplicate_files,\* group map: digest -> sequence of record indices
    skipped_files,  \* sequence of record indices recorded as skipped
    todo,           \* candidate records still to be looked up in the cache
    files_needing_hash, \* records queued for hashing, in candidate order
    collected,      \* records of files_needing_hash whose result was handled
    unique_by_size, \* total_files minus the number of candidates
    processed,      \* counter 'processed'
    hashed,         \* counter 'hashed'
    cache_hits,     \* counter 'cache_hits'
    cache_misses,   \* counter 'cache_misses'
    events,         \* 'dups' progress events delivered so far
    hashCalls,      \* paths on which calculate_md5 was invoked in this run
    lookups,        \* paths looked up in the cache in this run
    prev,           \* what the previous run left: records, group map, cache file, tree
    h_in,           \* hasher specification: the inputs of one call
    h_out,          \* hasher specification: the result of the call
    c_in,           \* cache-hit specification: entry, stat and configuration
    c_out,          \* cache-hit specification: result of _is_cache_hit
    exported        \* what the exporters wrote: [done, script, duplicates, uniques]

vars == <<args, fs, cacheFile, pc, run, files, cache_entries,
          duplicate_files, skipped_files, todo, files_needing_hash, collected,
          unique_by_size, processed, hashed, cache_hits, cache_misses, events, hashCalls,
          lookups, prev, h_in, h_out, c_in, c_out, exported>>

(***************************************************************************)
(* Bounds of the model.                                                    *)
(***************************************************************************)
MaxPaths == 3

Min(a, b) == IF a < b THEN a ELSE b

Range(s) == {s[i] : i \in 1..Len(s)}

(***************************************************************************)
(* File content.  A content is a byte string that is fixed everywhere      *)
(* except at offset 0 (the byte 'head') and at offset HeadLen (the byte    *)
(* 'tail', present when the file is longer than HeadLen).  MD5 is taken as *)
(* collision free: the digest of the first n bytes is the triple of the    *)
(* number of bytes covered and the distinguishing bytes they contain; it   *)
(* is never the empty digest.                                              *)
(***************************************************************************)
HeadLen == 4096

EmptyDigest == <<>>

Md5Of(content, n) ==
    LET k == Min(n, content.size)
    IN  <<k, IF k > 0 THEN content.head ELSE 0,
             IF k > HeadLen THEN content.tail ELSE 0>>

(***************************************************************************)
(* os.stat: st_size, st_mtime_ns and the float st_mtime, which cannot tell *)
(* apart two nanosecond values inside one representable step.              *)
(***************************************************************************)
MtimeFloatStepNs == 256

StMtime(mtime_ns) == mtime_ns \div MtimeFloatStepNs

StatOf(f) == [ok |-> f.exists, st_size |-> f.size, st_mtime_ns |-> f.mtime_ns,
              st_mtime |-> StMtime(f.mtime_ns)]

StatError == [ok |-> FALSE, st_size |-> 0, st_mtime_ns |-> 0, st_mtime |-> 0]

(***************************************************************************)
(* calculate_md5.  'rd' is what reading the file gives: kind "ok" with the *)
(* content read, "oserror" (open/read raises OSError) or "exitfail" (the   *)
(* md5sum process exits non-zero and prints nothing on stdout) or          *)
(* "undecodable" (md5sum prints a file name that is not valid UTF-8, which *)
(* subprocess.run with text=True cannot decode).                           *)
(* Result: exc ("none", "OSError", "UnicodeDecodeError", "SystemExit"),    *)
(* md5, read_size.                                                         *)
(***************************************************************************)
DefaultBlockSize == 4096

BytesPerKB == 1024

RECURSIVE ReadLoop(_, _, _, _)
\* the chunked read loop: returns read_size at the end of the loop
ReadLoop(size, block_size, max_size_bytes, read_size) ==
    LET chunk == Min(block_size, size - read_size)
        rs    == read_size + chunk
    IN  IF chunk = 0 THEN read_size
        ELSE IF max_size_bytes > 0 /\ rs >= max_size_bytes THEN rs
        ELSE ReadLoop(size, block_size, max_size_bytes, rs)

BlockSizeOf(a) == IF a.md5_block_size = 0 THEN DefaultBlockSize ELSE a.md5_block_size

calculate_md5(a, rd, file_size) ==
    IF a.md5_mode = "DEFAULT" THEN
        IF rd.kind = "ok"
        THEN LET read_size == ReadLoop(rd.content.size, BlockSizeOf(a),
                                       a.md5_max_size * BytesPerKB, 0)
             IN  [exc |-> "none", md5 |-> Md5Of(rd.content, read_size),
                  read_size |-> read_size]
        ELSE [exc |-> "OSError", md5 |-> EmptyDigest, read_size |-> 0]
    ELSE IF a.md5_mode = "MD5SUM" THEN
        IF rd.kind = "ok"
        THEN [exc |-> "none", md5 |-> Md5Of(rd.content, rd.content.size),
              read_size |-> file_size]
        ELSE IF rd.kind = "exitfail"
        THEN [exc |-> "none", md5 |-> EmptyDigest, read_size |-> file_size]
        ELSE IF rd.kind = "undecodable"
        THEN [exc |-> "UnicodeDecodeError", md5 |-> EmptyDigest, read_size |-> 0]
        ELSE [exc |-> "OSError", md5 |-> EmptyDigest, read_size |-> 0]
    ELSE [exc |-> "SystemExit", md5 |-> EmptyDigest, read_size |-> 0]

(***************************************************************************)
(* calculate_md5_with_stability_check.  'io' gives, per attempt, what the  *)
(* stat before, the read and the stat after return.  Result: md5,          *)
(* read_size, success, error (kind and the before/after snapshots), the    *)
(* number of digest attempts made, and exc for what escapes the call.      *)
(***************************************************************************)
max_retries == 3

NoSnap == [size |-> -1, mtime |-> -1]

\* a faulty snapshot that leaves the modification time out
SnapSizeOnly(st) == [size |-> st.st_size, mtime |-> 0]

Snap(st) == [size |-> st.st_size, mtime |-> st.st_mtime]

NoError == [kind |-> "", before |-> NoSnap, after |-> NoSnap]

HashFail(kind, before, after, n, t) ==
    [md5 |-> EmptyDigest, read_size |-> 0, success |-> FALSE,
     error |-> [kind |-> kind, before |-> before, after |-> after],
     attempts |-> n, tries |-> t, exc |-> "none"]

RECURSIVE StabilityLoop(_, _, _, _, _)
\* the loop 'for attempt in range(max_retries)' from iteration 'attempt' on;
\* n counts the calls of calculate_md5 made so far
StabilityLoop(a, io, file_size, attempt, n) ==
    IF attempt >= max_retries
    THEN HashFail("unexpected", NoSnap, NoSnap, n, attempt)
    ELSE
    LET o == io[attempt + 1]
        last == ~(attempt < max_retries - 1)
    IN  IF a.require_stable /\ ~o.sb.ok
        THEN IF last THEN HashFail("stat", NoSnap, NoSnap, n, attempt + 1)
             ELSE StabilityLoop(a, io, file_size, attempt + 1, n)
        ELSE
        LET r == calculate_md5(a, o.rd, file_size)
        IN  IF r.exc \notin {"none", "OSError"}
            THEN [HashFail("exit", NoSnap, NoSnap, n + 1, attempt + 1)
                    EXCEPT !.exc = r.exc]
            ELSE IF r.exc = "OSError"
            THEN IF last THEN HashFail("read", NoSnap, NoSnap, n + 1, attempt + 1)
                 ELSE StabilityLoop(a, io, file_size, attempt + 1, n + 1)
            ELSE IF a.require_stable /\ ~o.sa.ok
            THEN HashFail("verify", NoSnap, NoSnap, n + 1, attempt + 1)
            ELSE IF a.require_stable /\ Snap(o.sb) # Snap(o.sa)
            THEN HashFail("changed", Snap(o.sb), Snap(o.sa), n + 1, attempt + 1)
            ELSE [md5 |-> r.md5, read_size |-> r.read_size, success |-> TRUE,
                  error |-> NoError, attempts |-> n + 1, tries |-> attempt + 1,
                  exc |-> "none"]

calculate_md5_with_stability_check(a, io, file_size) ==
    StabilityLoop(a, io, file_size, 0, 0)

(***************************************************************************)
(* _is_cache_hit.  A cache entry is a JSON object; a key that is missing   *)
(* (dict.get gives None) is modelled by the value None.                    *)
(***************************************************************************)
None == -1

\* a faulty rule that leaves the prefix-length setting out
_is_cache_hit_any_prefix(cache_entry, file_stat, a) ==
    IF cache_entry.size # file_stat.st_size THEN FALSE
    ELSE IF cache_entry.mtime_ns # None
            /\ cache_entry.mtime_ns # file_stat.st_mtime_ns THEN FALSE
    ELSE IF cache_entry.mtime_ns = None
            /\ cache_entry.mtime # file_stat.st_mtime THEN FALSE
    ELSE IF cache_entry.md5_mode # a.md5_mode THEN FALSE
    ELSE TRUE

\* a faulty rule that leaves the modification time out
_is_cache_hit_any_mtime(cache_entry, file_stat, a) ==
    IF cache_entry.size # file_stat.st_size THEN FALSE
    ELSE IF cache_entry.md5_mode # a.md5_mode THEN FALSE
    ELSE IF (IF cache_entry.md5_max_size = None THEN 0
             ELSE cache_entry.md5_max_size) # a.md5_max_size THEN FALSE
    ELSE TRUE

_is_cache_hit(cache_entry, file_stat, a) ==
    IF cache_entry.size # file_stat.st_size THEN FALSE
    ELSE IF cache_entry.mtime_ns # None
            /\ cache_entry.mtime_ns # file_stat.st_mtime_ns THEN FALSE
    ELSE IF cache_entry.mtime_ns = None
            /\ cache_entry.mtime # file_stat.st_mtime THEN FALSE
    ELSE IF cache_entry.md5_mode # a.md5_mode THEN FALSE
    ELSE IF (IF cache_entry.md5_max_size = None THEN 0
             ELSE cache_entry.md5_max_size) # a.md5_max_size THEN FALSE
    ELSE TRUE

(***************************************************************************)
(* The scanned tree.  Paths are numbered; the directory and base name of a *)
(* path are fixed by its number.  Three directories: /r1, its              *)
(* subdirectory /r1/sub, and /r2.                                          *)
(***************************************************************************)
DirOf(p) == IF p % 3 = 1 THEN "/r1" ELSE IF p % 3 = 2 THEN "/r1/sub" ELSE "/r2"

\* base names: equal names only in different directories
NameOf(p) == <<"a", "a", "b", "b", "c", "c">>[((p - 1) % 6) + 1]

DirsUnder(root) == IF root = "/r1" THEN <<"/r1", "/r1/sub">> ELSE <<root>>

Indices(n) == [i \in 1..n |-> i]

RECURSIVE Flatten(_)
Flatten(ss) == IF ss = <<>> THEN <<>> ELSE Head(ss) \o Flatten(Tail(ss))

\* the files of one directory, in the order of their numbers
FilesIn(f, dir) ==
    LET InDir(p) == f[p].exists /\ DirOf(p) = dir
    IN  SelectSeq(Indices(Cardinality(DOMAIN f)), InDir)

\* os.walk(root_dir), top down: (dir_path, file) for every file under root
Walk(f, root) ==
    Flatten([d \in 1..Len(DirsUnder(root)) |-> FilesIn(f, DirsUnder(root)[d])])

(***************************************************************************)
(* get_file_info and find_files_default (sequential branch): one record    *)
(* per candidate path, in walk order, under the key root_dir of the dict   *)
(* 'files'; a root given twice overwrites its own list.                    *)
(***************************************************************************)
skip_md5_in_scan(a) == a.compare_mode = "MD5"

\* get_file_info computes the digest when this holds
InfoHashes(a, skip_md5) == a.compare_mode = "MD5" /\ ~skip_md5

NoDigest == [has |-> FALSE, md5 |-> EmptyDigest, md5_read_size |-> 0]

get_file_info(f, root, p) ==
    [path |-> p, root |-> root, size |-> f[p].size, digest |-> NoDigest]

\* the distinct elements of s in the order of their first occurrence: the
\* keys of a dict in insertion order
DistinctInOrder(s) ==
    LET First(i) == \A j \in 1..(i - 1) : s[j] # s[i]
        firsts == SelectSeq(Indices(Len(s)), First)
    IN  [k \in 1..Len(firsts) |-> s[firsts[k]]]

\* args.include_patterns: None, or a list of patterns; a pattern and a name
\* are sequences of characters
NoPatterns == [given |-> FALSE, list |-> <<>>]

PatternList(l) == [given |-> TRUE, list |-> l]

\* the characters of the names of the tree
Chars(s) ==
    CASE s = "a" -> <<"a">>
      [] s = "b" -> <<"b">>
      [] s = "c" -> <<"c">>
      [] s = "/r1" -> <<"/", "r", "1">>
      [] s = "/r1/sub" -> <<"/", "r", "1", "/", "s", "u", "b">>
      [] s = "/r2" -> <<"/", "r", "2">>

\* line 569: s.replace(".", "\."), every dot becomes an escaped dot
normalized_ip(s) == [j \in 1..Len(s) |-> IF s[j] = "." THEN "\\." ELSE s[j]]

\* line 572: re.search(nip, file_name) for patterns of letters and dots: a
\* bare dot stands for any character, an escaped dot for a dot, every other
\* character for itself; the pattern may match anywhere in the name
re_search(nip, name) ==
    LET Matches(t, c) == IF t = "." THEN TRUE
                         ELSE IF t = "\\." THEN c = "."
                         ELSE t = c
    IN  \E i \in 0..(Len(name) - Len(nip)) :
            \A j \in 1..Len(nip) : Matches(nip[j], name[i + j])

\* lines 566-576: found, for one file name of os.walk
found(a, file_name) ==
    /\ a.include_patterns.given
    /\ \E k \in 1..Len(a.include_patterns.list) :
          re_search(normalized_ip(a.include_patterns.list[k]), Chars(file_name))

\* lines 562-580: the candidate paths of a root, in walk order
candidate_paths(a, f, root) ==
    LET Included(p) == ~a.include_patterns.given \/ found(a, NameOf(p))
    IN  SelectSeq(Walk(f, root), Included)

\* lines 632-655: a path whose probe raises (os.path.getsize on a file that
\* is gone) is reported and left out
find_files(a, f) ==
    LET keys == DistinctInOrder(a.directories)
        Probed(p) == f[p].fate # "gone"
    IN  Flatten([k \in 1..Len(keys) |->
            LET w == SelectSeq(candidate_paths(a, f, keys[k]), Probed)
            IN  [j \in 1..Len(w) |-> get_file_info(f, keys[k], w[j])]])

(***************************************************************************)
(* What the file system gives for a path after the scan.  'fate' is what   *)
(* became of the file: "ok", "unreadable" (it can be stat'ed, not read),   *)
(* "vanished" (deleted after it was discovered), "gone" (deleted after it  *)
(* was listed and before it was probed), "badname" (readable, under a name *)
(* that is not valid UTF-8) or "quoted" (readable, under a name holding a  *)
(* single quote followed by a shell command).                              *)
(***************************************************************************)
ContentOf(fl) == [size |-> fl.size, head |-> fl.head, tail |-> fl.tail]

StatAt(fl) == IF fl.fate = "vanished" THEN StatError ELSE StatOf(fl)

ReadAt(fl, a) ==
    IF fl.fate = "ok" THEN [kind |-> "ok", content |-> ContentOf(fl)]
    ELSE IF fl.fate = "badname"
    THEN [kind |-> IF a.md5_mode = "MD5SUM" THEN "undecodable" ELSE "ok",
          content |-> ContentOf(fl)]
    ELSE IF fl.fate = "quoted"
    THEN [kind |-> IF a.md5_mode = "MD5SUM" THEN "exitfail" ELSE "ok",
          content |-> ContentOf(fl)]
    ELSE [kind |-> IF a.md5_mode = "MD5SUM" THEN "exitfail" ELSE "oserror",
          content |-> ContentOf(fl)]

\* Lines 466-468: the file systems that the command line 'md5sum -b '<path>''
\* run with shell=True can leave.  A path holding a single quote ends the
\* quoting, and the shell runs what follows it: any other file may be
\* deleted or rewritten.  Every other read leaves the file system as it is.
ShellEffects(a, f, p) ==
    IF a.md5_mode = "MD5SUM" /\ f[p].fate = "quoted"
    THEN {f} \cup {[f EXCEPT ![q].exists = FALSE] : q \in DOMAIN f \ {p}}
             \cup {[f EXCEPT ![q].head = 3 - f[q].head] : q \in DOMAIN f \ {p}}
    ELSE {f}

\* the three attempts of one call on a file that nobody touches meanwhile
IoOf(fl, a) ==
    [k \in 1..max_retries |-> [sb |-> StatAt(fl), rd |-> ReadAt(fl, a), sa |-> StatAt(fl)]]

(***************************************************************************)
(* Phase 1 of _find_duplicate_files_md5_size_first: size groups over the   *)
(* records of all roots, kept when they hold more than one record, and     *)
(* flattened in the order of the dict candidate_groups.                    *)
(***************************************************************************)
SizeGroup(fl, size) ==
    LET HasSize(i) == fl[i].size = size
    IN  SelectSeq(Indices(Len(fl)), HasSize)

\* a faulty filter that keeps the groups of one record
IsCandidateGroupAny(group) == Len(group) > 0

\* a faulty filter that drops the groups of two records
IsCandidateGroupOverTwo(group) == Len(group) > 2

IsCandidateGroup(group) == Len(group) > 1

Candidates(fl) ==
    LET sizes == DistinctInOrder([i \in 1..Len(fl) |-> fl[i].size])
    IN  Flatten([k \in 1..Len(sizes) |->
            IF IsCandidateGroup(SizeGroup(fl, sizes[k]))
            THEN SizeGroup(fl, sizes[k]) ELSE <<>>])

\* a pool of two workers whenever the hash-specific setting is 0
HashThreadsDefaultTwo(a) == IF a.hash_threads = 0 THEN 2 ELSE a.hash_threads

\* hash_threads takes precedence over threads
HashThreads(a) == IF a.hash_threads = 0 THEN a.threads ELSE a.hash_threads

\* a configuration that always names a cache file
cache_path_always(a) == TRUE

\* line 930: the cache is used when a cache path is configured
cache_path(a) == a.md5_cache

\* The decoded cache file:'form' is what json.load makes of it ("object",
\* a top-level "list", or "notjson" when it does not parse) and 'entries' the
\* value under the key 'entries' of an object.
CacheFileOf(entries) ==
    [present |-> TRUE, writable |-> TRUE, form |-> "object", entries |-> entries]

\* an 'entries' value that is a JSON list: indexed from 0, without .get
EntriesList == [k \in {0} |-> <<>>]

IsDict(ce) == 0 \notin DOMAIN ce

\* lines 118-129: {} for a missing or unparsable file; data.get raises
\* AttributeError, which is not caught, when the top level is not an object
load_md5_cache(cf) ==
    IF ~cf.present THEN [exc |-> "", entries |-> <<>>]
    ELSE IF cf.form = "notjson" THEN [exc |-> "", entries |-> <<>>]
    ELSE IF cf.form = "list" THEN [exc |-> "AttributeError", entries |-> <<>>]
    ELSE [exc |-> "", entries |-> cf.entries]

_get_cache_key(rec) == rec.path

\* an insertion made from a stale read of the group: the members that were
\* appended meanwhile are lost
AddToGroupStale(df, key, i) ==
    [k \in DOMAIN df \cup {key} |-> IF k = key THEN <<i>> ELSE df[k]]

\* a faulty append that puts the record in front of its group
AddToGroupFront(df, key, i) ==
    [k \in DOMAIN df \cup {key} |->
        IF k = key THEN (IF key \in DOMAIN df THEN <<i>> \o df[key] ELSE <<i>>)
        ELSE df[k]]

\* duplicate_files[md5sum].append(file_info), creating the list when needed
AddToGroup(df, key, i) ==
    [k \in DOMAIN df \cup {key} |->
        IF k = key THEN (IF key \in DOMAIN df THEN Append(df[key], i) ELSE <<i>>)
        ELSE df[k]]

\* the cache entry written after a successful hash
NewEntry(a, r, st) ==
    [md5 |-> r.md5, md5_read_size |-> r.read_size, size |-> st.st_size,
     mtime_ns |-> st.st_mtime_ns, mtime |-> None, md5_mode |-> a.md5_mode,
     md5_max_size |-> a.md5_max_size]

PutEntry(ce, key, e) ==
    [k \in DOMAIN ce \cup {key} |-> IF k = key THEN e ELSE ce[k]]

ProgressInterval == 250

(***************************************************************************)
(* The run: find_files, then find_duplicate_files in content mode.         *)
(***************************************************************************)
pureVars == <<h_in, h_out, c_in, c_out, exported>>

counters == <<processed, hashed, cache_hits, cache_misses>>

\* lines 507-528: the traversal strategies find_files dispatches on; the
\* model walks as find_files_default does
FindModes == {"DEFAULT"}

\* find_files: the scan of all roots (get_file_info with skip_md5 set in MD5
\* mode); sys.exit on a traversal strategy it does not know
\* Lines 594-629: with a scan pool the records of a root are appended in the
\* completion order of the tasks; the roots keep their order.
ScanOrders(base) ==
    LET n == Len(base)
        orders == {q \in [1..n -> 1..n] :
                      /\ \A i, j \in 1..n : q[i] = q[j] => i = j
                      /\ \A i \in 1..n : base[q[i]].root = base[i].root}
    IN  {[i \in 1..n |-> base[q[i]]] : q \in orders}

FindFiles ==
    /\ pc = "scan"
    /\ IF args.find_mode \in FindModes
       THEN /\ files' \in (IF args.threads > 0 THEN ScanOrders(find_files(args, fs))
                           ELSE {find_files(args, fs)})
            /\ pc' = "dups"
       ELSE /\ files' = files
            /\ pc' = "crashed"
    /\ hashCalls' = IF InfoHashes(args, skip_md5_in_scan(args))
                    THEN {files'[i].path : i \in 1..Len(files')} ELSE {}
    /\ lookups' = {}
    /\ UNCHANGED <<args, fs, cacheFile, run, cache_entries, duplicate_files,
                   skipped_files, todo, files_needing_hash, collected,
                   unique_by_size, counters, events, prev, pureVars>>

\* lines 927-982: load the cache, group by size, keep the candidate groups
StartMd5SizeFirst ==
    /\ pc = "dups"
    /\ args.compare_mode = "MD5"
    /\ IF cache_path(args) /\ load_md5_cache(cacheFile).exc # ""
       THEN /\ pc' = "crashed"
            /\ UNCHANGED <<cache_entries, todo, unique_by_size>>
       ELSE /\ cache_entries' = IF cache_path(args) THEN load_md5_cache(cacheFile).entries
                                ELSE <<>>
            /\ todo' = Candidates(files)
            /\ unique_by_size' = Len(files) - Len(todo')
            /\ pc' = IF todo' = <<>> THEN "hash" ELSE "lookup"
    /\ duplicate_files' = <<>>
    /\ skipped_files' = <<>>
    /\ files_needing_hash' = <<>>
    /\ collected' = {}
    /\ processed' = 0 /\ hashed' = 0 /\ cache_hits' = 0 /\ cache_misses' = 0
    /\ events' = <<>>
    /\ UNCHANGED <<args, fs, cacheFile, run, files, hashCalls, lookups, prev, pureVars>>

\* whether the cache serves the record (lines 991-997)
CacheServes(a, ce, f, rec) ==
    /\ cache_path(a)
    /\ _get_cache_key(rec) \in DOMAIN ce
    /\ StatAt(f[rec.path]).ok
    /\ _is_cache_hit(ce[_get_cache_key(rec)], StatAt(f[rec.path]), a)

\* the value of an entry without the key 'md5'
NoMd5 == <<None>>

\* What escapes the lookup of one record: AttributeError from .get on an
\* 'entries' value that is not a dict (line 993), KeyError from cached['md5']
\* on a matching entry without digest (line 999)
LookupRaises(a, ce, f, rec) ==
    /\ cache_path(a)
    /\ \/ ~IsDict(ce)
       \/ CacheServes(a, ce, f, rec) /\ ce[_get_cache_key(rec)].md5 = NoMd5

\* a cache hit that files the record under the cached digest but leaves the
\* record's own 'md5' empty
CachedDigestUnset(cached, rec) ==
    [has |-> TRUE, md5 |-> EmptyDigest, md5_read_size |-> rec.size]

CachedDigest(cached, rec) ==
    [has |-> TRUE, md5 |-> cached.md5,
     md5_read_size |-> IF cached.md5_read_size = None THEN rec.size
                       ELSE cached.md5_read_size]

\* one iteration of the loop of lines 984-1017, on the next candidate
CacheLookup ==
    /\ pc = "lookup"
    /\ todo # <<>>
    /\ LET i == Head(todo)
           rec == files[i]
           cached == cache_entries[_get_cache_key(rec)]
       IN  /\ lookups' = IF cache_path(args) THEN lookups \cup {rec.path} ELSE lookups
           /\ IF LookupRaises(args, cache_entries, fs, rec)
              THEN /\ pc' = "crashed"
                   /\ UNCHANGED <<files, duplicate_files, cache_hits, hashed, processed,
                                  cache_misses, files_needing_hash, todo>>
              ELSE /\ IF CacheServes(args, cache_entries, fs, rec)
                      THEN /\ files' = [files EXCEPT ![i].digest = CachedDigest(cached, rec)]
                           /\ duplicate_files' = AddToGroup(duplicate_files, cached.md5, i)
                           /\ cache_hits' = cache_hits + 1
                           /\ hashed' = hashed + 1
                           /\ processed' = processed + 1
                           /\ UNCHANGED <<cache_misses, files_needing_hash>>
                      ELSE /\ cache_misses' = IF cache_path(args) THEN cache_misses + 1
                                              ELSE cache_misses
                           /\ files_needing_hash' = Append(files_needing_hash, i)
                           /\ UNCHANGED <<files, duplicate_files, cache_hits, hashed,
                                          processed>>
                   /\ todo' = Tail(todo)
                   /\ pc' = IF todo' = <<>> THEN "hash" ELSE "lookup"
    /\ UNCHANGED <<args, fs, cacheFile, run, cache_entries, skipped_files, collected,
                   unique_by_size, events, hashCalls, prev, pureVars>>

\* line 1028: the pool is used for more than one file and a pool size above 0
UsePool == HashThreads(args) > 0 /\ Len(files_needing_hash) > 1

\* the result of the hasher for a record of this run
HashResult(a, f, rec) ==
    calculate_md5_with_stability_check(a, IoOf(f[rec.path], a), rec.size)

\* Handling of one result: lines 1038-1089 (pooled) and 1093-1136 (sequential).
\* 'after' is the file system at the os.stat of lines 1047 and 1097, which
\* comes after the hashing call has returned.
HandleResultAt(k, pooled, after) ==
    LET i == files_needing_hash[k]
        rec == files[i]
        r == HashResult(args, fs, rec)
        st == StatAt(after[rec.path])
        p1 == processed + 1
        fires == args.progress_cb # "none" /\ p1 % ProgressInterval = 0
        raises == fires /\ args.progress_cb = "raise"
    IN  /\ collected' = collected \cup {k}
        /\ hashCalls' = IF r.attempts > 0 THEN hashCalls \cup {rec.path} ELSE hashCalls
        /\ fs' \in (IF r.attempts > 0 THEN ShellEffects(args, after, rec.path)
                    ELSE {after})
        /\ IF r.exc # "none"
           THEN \* SystemExit passes 'except Exception' (line 1082); any other
                \* exception is caught there in the pooled branch only
                IF r.exc # "SystemExit" /\ pooled
                THEN /\ skipped_files' = Append(skipped_files, i)
                     /\ processed' = p1
                     /\ pc' = "hash"
                     /\ UNCHANGED <<files, cache_entries, duplicate_files, hashed, events>>
                ELSE /\ pc' = "crashed"
                     /\ UNCHANGED <<files, cache_entries, duplicate_files, hashed,
                                    skipped_files, processed, events>>
           ELSE /\ IF r.success
                   THEN /\ files' = [files EXCEPT ![i].digest =
                                        [has |-> TRUE, md5 |-> r.md5, md5_read_size |-> r.read_size]]
                        /\ cache_entries' = IF cache_path(args) /\ st.ok
                                            THEN PutEntry(cache_entries, _get_cache_key(rec),
                                                          NewEntry(args, r, st))
                                            ELSE cache_entries
                        /\ duplicate_files' = AddToGroup(duplicate_files, r.md5, i)
                        /\ hashed' = hashed + 1
                        /\ skipped_files' = IF raises /\ pooled THEN Append(skipped_files, i)
                                            ELSE skipped_files
                   ELSE /\ skipped_files' = IF raises /\ pooled
                                            THEN Append(Append(skipped_files, i), i)
                                            ELSE Append(skipped_files, i)
                        /\ UNCHANGED <<files, cache_entries, duplicate_files, hashed>>
                /\ processed' = IF raises /\ pooled THEN p1 + 1 ELSE p1
                /\ events' = IF fires /\ ~raises
                             THEN Append(events, [processed |-> p1 + unique_by_size,
                                                  total |-> Len(files)])
                             ELSE events
                /\ pc' = IF raises /\ ~pooled THEN "aborted" ELSE "hash"

\* one result handled while nobody writes to the tree
HandleResult(k, pooled) == HandleResultAt(k, pooled, fs)

\* one iteration of the sequential loop, in the order of files_needing_hash
HashSequential ==
    /\ pc = "hash"
    /\ ~UsePool
    /\ Cardinality(collected) < Len(files_needing_hash)
    /\ HandleResult(Cardinality(collected) + 1, FALSE)
    /\ UNCHANGED <<args, cacheFile, run, todo, files_needing_hash, unique_by_size,
                   cache_hits, cache_misses, lookups, prev, pureVars>>

\* one iteration of 'for future in as_completed(...)': any finished task
HashPooledCollect ==
    /\ pc = "hash"
    /\ UsePool
    /\ \E k \in (1..Len(files_needing_hash)) \ collected : HandleResult(k, TRUE)
    /\ UNCHANGED <<args, cacheFile, run, todo, files_needing_hash, unique_by_size,
                   cache_hits, cache_misses, lookups, prev, pureVars>>

\* the file after json.dump of the object {'version', 'cached_at', 'entries'}
Written(cf, entries) ==
    [cf EXCEPT !.present = TRUE, !.form = "object", !.entries = entries]

\* a save that lets the OSError of open() escape
save_md5_cache_raising(cf, entries) ==
    IF cf.writable THEN [exc |-> "", file |-> Written(cf, entries)]
    ELSE [exc |-> "OSError", file |-> cf]

\* lines 141-154: the OSError of open() or of the write is caught and printed
save_md5_cache(cf, entries) ==
    IF cf.writable THEN [exc |-> "", file |-> Written(cf, entries)]
    ELSE [exc |-> "", file |-> cf]

\* lines 1141-1158: save the cache, deliver the final event, return the map
Finish ==
    /\ pc = "hash"
    /\ Cardinality(collected) = Len(files_needing_hash)
    /\ LET saved == IF cache_path(args) THEN save_md5_cache(cacheFile, cache_entries)
                    ELSE [exc |-> "", file |-> cacheFile]
       IN  /\ cacheFile' = saved.file
           /\ pc' = IF saved.exc # "" THEN "crashed"
                    ELSE IF args.progress_cb = "raise" THEN "aborted" ELSE "done"
           /\ events' = IF saved.exc = "" /\ args.progress_cb = "ok"
                        THEN Append(events, [processed |-> Len(files),
                                             total |-> Len(files)])
                        ELSE events
    /\ UNCHANGED <<args, fs, run, files, cache_entries, duplicate_files, skipped_files,
                   todo, files_needing_hash, collected, unique_by_size, counters,
                   hashCalls, lookups, prev, pureVars>>

(***************************************************************************)
(* find_duplicate_files in name mode and in name+size mode (lines          *)
(* 875-912): one pass over the records of all roots.                       *)
(***************************************************************************)
CompareModes == {"MD5", "NAME", "NAMESIZE"}

\* a faulty key that leaves the size out in name+size mode
FileIdNameOnly(a, rec) == NameOf(rec.path)

\* lines 882-885: the key 'fileid' of a record
FileId(a, rec) ==
    IF a.compare_mode = "NAME" THEN NameOf(rec.path)
    ELSE <<NameOf(rec.path), rec.size>>

\* lines 875-878: the empty map and the counter, before the pass
StartNameModes ==
    /\ pc = "dups"
    /\ args.compare_mode # "MD5"
    /\ duplicate_files' = <<>>
    /\ processed' = 0
    /\ todo' = Indices(Len(files))
    /\ events' = <<>>
    /\ pc' = "names"
    /\ UNCHANGED <<args, fs, cacheFile, run, files, cache_entries, skipped_files,
                   files_needing_hash, collected, unique_by_size, hashed, cache_hits,
                   cache_misses, hashCalls, lookups, prev, pureVars>>

\* lines 881-902: one record; with a comparison mode that is neither NAME nor
\* NAMESIZE a message is printed and the record is passed over
GroupByFileId ==
    /\ pc = "names"
    /\ todo # <<>>
    /\ LET i == Head(todo)
           p1 == processed + 1
           fires == args.progress_cb # "none" /\ p1 % ProgressInterval = 0
       IN  IF args.compare_mode \in CompareModes
           THEN /\ duplicate_files' = AddToGroup(duplicate_files, FileId(args, files[i]), i)
                /\ processed' = p1
                /\ events' = IF fires /\ args.progress_cb = "ok"
                             THEN Append(events, [processed |-> p1, total |-> Len(files)])
                             ELSE events
                /\ pc' = IF fires /\ args.progress_cb = "raise" THEN "aborted" ELSE "names"
           ELSE /\ pc' = "names"
                /\ UNCHANGED <<duplicate_files, processed, events>>
    /\ todo' = Tail(todo)
    /\ UNCHANGED <<args, fs, cacheFile, run, files, cache_entries, skipped_files,
                   files_needing_hash, collected, unique_by_size, hashed, cache_hits,
                   cache_misses, hashCalls, lookups, prev, pureVars>>

\* lines 904-912: the final event and the return of the map
FinishNames ==
    /\ pc = "names"
    /\ todo = <<>>
    /\ events' = IF args.progress_cb = "ok"
                 THEN Append(events, [processed |-> Len(files), total |-> Len(files)])
                 ELSE events
    /\ pc' = IF args.progress_cb = "raise" THEN "aborted" ELSE "done"
    /\ UNCHANGED <<args, fs, cacheFile, run, files, cache_entries, duplicate_files,
                   skipped_files, todo, files_needing_hash, collected, unique_by_size,
                   counters, hashCalls, lookups, prev, pureVars>>

(***************************************************************************)
(* Initial states: the arguments, the tree and the cache file a run        *)
(* starts from.                                                            *)
(***************************************************************************)
Paths == 1..MaxPaths

InitialMtime == 1024

File(size, head, tail, fate) ==
    [exists |-> TRUE, size |-> size, mtime_ns |-> InitialMtime,
     head |-> head, tail |-> tail, fate |-> fate]

\* contents: <<1,1>> and <<1,2>> agree in their first HeadLen bytes
FileStates ==
    {File(sz, c[1], c[2], ft) : sz \in {5000, 6000},
                                c \in {<<1, 1>>, <<1, 2>>, <<2, 1>>},
                                ft \in {"ok", "unreadable"}}

\* the paths that may be unreadable
Fates(p) == IF p % 2 = 0 THEN {"ok", "unreadable"} ELSE {"ok"}

\* path 1 fixes the naming of sizes and contents
Trees ==
    {f \in [Paths -> FileStates] :
        /\ f[1].size = 5000 /\ f[1].head = 1 /\ f[1].tail = 1
        /\ \A p \in Paths : f[p].fate \in Fates(p)}

Args(cm, mm, bs, ms, ht, th, rs, mc, cb, dirs) ==
    [compare_mode |-> cm, md5_mode |-> mm, md5_block_size |-> bs, md5_max_size |-> ms,
     hash_threads |-> ht, threads |-> th, require_stable |-> rs, md5_cache |-> mc,
     progress_cb |-> cb, directories |-> dirs, find_mode |-> "DEFAULT",
     include_patterns |-> NoPatterns]

RootLists == {<<"/r1", "/r2">>, <<"/r1/sub", "/r1">>, <<"/r2", "/r1", "/r2">>}

RunArgs ==
    {Args("MD5", mm, 4096, ms, ht, 0, FALSE, mc, "ok", dirs) :
        mm \in {"DEFAULT", "MD5SUM"}, ms \in {0, 4}, ht \in {0, 2},
        mc \in BOOLEAN, dirs \in RootLists}

\* the entry an earlier run with the same arguments wrote for a file
EntryOf(a, fl) ==
    NewEntry(a, calculate_md5(a, [kind |-> "ok", content |-> ContentOf(fl)], fl.size),
             StatOf(fl))

NoCacheFile == [present |-> FALSE, writable |-> TRUE, form |-> "object", entries |-> <<>>]

\* cache files: none, or one written earlier for the files of S
CacheFiles(a, f) ==
    {NoCacheFile} \cup
    (IF a.md5_cache
     THEN {CacheFileOf([p \in S |-> EntryOf(a, f[p])]) : S \in {Paths, {2}}}
     ELSE {})

NoCall == [a |-> Args("MD5", "DEFAULT", 4096, 0, 0, 0, FALSE, FALSE, "none", <<>>),
           io |-> <<>>, file_size |-> 0]

NoResult == HashFail("", NoSnap, NoSnap, 0, 0)

NoEntry == [md5 |-> EmptyDigest, md5_read_size |-> None, size |-> None,
            mtime_ns |-> None, mtime |-> None, md5_mode |-> "", md5_max_size |-> None]

NoCheck == [entry |-> NoEntry, stat |-> StatError, a |-> NoCall.a]

NoPrev == [files |-> <<>>, duplicate_files |-> <<>>, cache_hits |-> 0,
           cache |-> NoCacheFile, fs |-> <<>>]

\* no exporter has run
NoExport == [done |-> {}, script |-> {}, duplicates |-> <<>>, uniques |-> <<>>]

\* the pure-function specifications leave the run idle and vice versa
PureIdle ==
    /\ h_in = NoCall /\ h_out = NoResult /\ c_in = NoCheck /\ c_out = FALSE
    /\ exported = NoExport

RunStart ==
    /\ run = 1
    /\ files = <<>>
    /\ cache_entries = <<>>
    /\ duplicate_files = <<>>
    /\ skipped_files = <<>>
    /\ todo = <<>>
    /\ files_needing_hash = <<>>
    /\ collected = {}
    /\ unique_by_size = 0
    /\ processed = 0 /\ hashed = 0 /\ cache_hits = 0 /\ cache_misses = 0
    /\ events = <<>>
    /\ hashCalls = {}
    /\ lookups = {}
    /\ prev = NoPrev

Init ==
    /\ args \in RunArgs
    /\ fs \in Trees
    /\ cacheFile \in CacheFiles(args, fs)
    /\ pc = "scan"
    /\ RunStart
    /\ PureIdle

Next ==
    \/ FindFiles
    \/ StartMd5SizeFirst
    \/ CacheLookup
    \/ HashSequential
    \/ HashPooledCollect
    \/ Finish

Spec == Init /\ [][Next]_vars

(***************************************************************************)
(* A tree large enough for an intermediate progress event: as many files   *)
(* of one size as the progress interval, all but the first two served by a *)
(* warm cache, so that the hash phase handles the results that bring       *)
(* 'processed' to the interval.                                            *)
(***************************************************************************)
BulkPaths == 1..ProgressInterval

BulkTrees ==
    {[p \in BulkPaths |-> File(5000, 1, 1, IF p = 1 THEN f1 ELSE IF p = 2 THEN f2 ELSE "ok")] :
        f1 \in {"ok", "unreadable"}, f2 \in {"ok", "unreadable"}}

BulkArgs ==
    {Args("MD5", mm, 4096, 0, ht, 0, FALSE, TRUE, cb, <<"/r1", "/r2">>) :
        mm \in {"DEFAULT", "MD5SUM"}, ht \in {0, 2}, cb \in {"none", "ok", "raise"}}

InitBulk ==
    /\ args \in BulkArgs
    /\ fs \in BulkTrees
    /\ cacheFile = CacheFileOf([p \in BulkPaths \ {1, 2} |-> EntryOf(args, fs[p])])
    /\ pc = "scan"
    /\ RunStart
    /\ PureIdle

SpecBulk == InitBulk /\ [][Next]_vars

(***************************************************************************)
(* Two runs sharing one cache file, with an external change of one file    *)
(* between them.                                                           *)
(***************************************************************************)
MaxRuns == 2

\* what an external writer can do to a file between two runs
Modifications(fl) ==
    {[fl EXCEPT !.head = 3 - fl.head, !.mtime_ns = fl.mtime_ns + 1024],
     [fl EXCEPT !.size = 11000 - fl.size, !.mtime_ns = fl.mtime_ns + 1024],
     [fl EXCEPT !.mtime_ns = fl.mtime_ns + 1024],
     [fl EXCEPT !.head = 3 - fl.head],
     [fl EXCEPT !.exists = FALSE]}

\* the end of a run and the start of the next one on the same cache file
BetweenRuns ==
    /\ pc = "done"
    /\ run < MaxRuns
    /\ \/ fs' = fs
       \/ \E p \in DOMAIN fs : \E m \in Modifications(fs[p]) :
             fs[p].exists /\ fs' = [fs EXCEPT ![p] = m]
    /\ prev' = [files |-> files, duplicate_files |-> duplicate_files,
                cache_hits |-> cache_hits, cache |-> cacheFile, fs |-> fs]
    /\ run' = run + 1
    /\ pc' = "scan"
    /\ files' = <<>>
    /\ cache_entries' = <<>>
    /\ duplicate_files' = <<>>
    /\ skipped_files' = <<>>
    /\ todo' = <<>>
    /\ files_needing_hash' = <<>>
    /\ collected' = {}
    /\ unique_by_size' = 0
    /\ processed' = 0 /\ hashed' = 0 /\ cache_hits' = 0 /\ cache_misses' = 0
    /\ events' = <<>>
    /\ hashCalls' = {}
    /\ lookups' = {}
    /\ UNCHANGED <<args, cacheFile, pureVars>>

RunsTrees ==
    {f \in [Paths -> {File(sz, h, 1, "ok") : sz \in {5000, 6000}, h \in {1, 2}}] :
        f[1].size = 5000 /\ f[1].head = 1}

RunsArgs ==
    {Args("MD5", mm, 4096, 0, ht, 0, FALSE, TRUE, "ok", dirs) :
        mm \in {"DEFAULT", "MD5SUM"}, ht \in {0, 2},
        dirs \in {<<"/r1", "/r2">>, <<"/r1/sub", "/r1">>}}

InitRuns ==
    /\ args \in RunsArgs
    /\ fs \in RunsTrees
    /\ cacheFile = NoCacheFile
    /\ pc = "scan"
    /\ RunStart
    /\ PureIdle

NextRuns == Next \/ BetweenRuns

SpecRuns == InitRuns /\ [][NextRuns]_vars

(***************************************************************************)
(* Specification of one call of calculate_md5_with_stability_check on      *)
(* every sequence of I/O outcomes.                                         *)
(***************************************************************************)
Stat(size, mtime_ns) ==
    [ok |-> TRUE, st_size |-> size, st_mtime_ns |-> mtime_ns, st_mtime |-> StMtime(mtime_ns)]

AttemptOutcomes ==
    {[sb |-> b, rd |-> [kind |-> k, content |-> [size |-> 5000, head |-> 1, tail |-> 1]],
      sa |-> x] :
        b \in {StatError, Stat(5000, 1024)},
        k \in {"ok", "oserror", "exitfail"},
        x \in {StatError, Stat(5000, 1024), Stat(5000, 2048), Stat(6000, 1024)}}

HasherInputs ==
    {[a |-> Args("MD5", mm, 4096, 0, 0, 0, rs, FALSE, "none", <<>>),
      io |-> io, file_size |-> 5000] :
        mm \in {"DEFAULT", "MD5SUM"}, rs \in BOOLEAN,
        io \in [1..max_retries -> AttemptOutcomes]}

RunIdle ==
    /\ args = NoCall.a
    /\ fs = <<>>
    /\ cacheFile = NoCacheFile
    /\ RunStart

runVars == <<args, fs, cacheFile, run, files, cache_entries, duplicate_files,
             skipped_files, todo, files_needing_hash, collected, unique_by_size,
             counters, events, hashCalls, lookups, prev>>

InitHasher ==
    /\ pc = "h_call"
    /\ h_in \in HasherInputs
    /\ h_out = NoResult
    /\ c_in = NoCheck /\ c_out = FALSE
    /\ exported = NoExport
    /\ RunIdle

HasherCall ==
    /\ pc = "h_call"
    /\ h_out' = calculate_md5_with_stability_check(h_in.a, h_in.io, h_in.file_size)
    /\ pc' = "h_done"
    /\ UNCHANGED <<h_in, c_in, c_out, exported, runVars>>

NextHasher == HasherCall

SpecHasher == InitHasher /\ [][NextHasher]_vars

(***************************************************************************)
(* Specification of one call of _is_cache_hit on every entry, stat and     *)
(* configuration.                                                          *)
(***************************************************************************)
CacheHitInputs ==
    {[entry |-> [md5 |-> <<5000, 1, 1>>, md5_read_size |-> 5000, size |-> sz,
                 mtime_ns |-> mns, mtime |-> mt, md5_mode |-> mm, md5_max_size |-> ms],
      stat |-> Stat(5000, t),
      a |-> Args("MD5", amm, 4096, ams, 0, 0, FALSE, TRUE, "none", <<>>)] :
        sz \in {None, 5000, 6000}, mns \in {None, 1024, 1100},
        mt \in {None, 4, 5}, mm \in {"", "DEFAULT", "MD5SUM"}, ms \in {None, 0, 4},
        t \in {1024, 1100, 1280},
        amm \in {"DEFAULT", "MD5SUM"}, ams \in {0, 4}}

InitCacheHit ==
    /\ pc = "c_call"
    /\ c_in \in CacheHitInputs
    /\ c_out = FALSE
    /\ h_in = NoCall /\ h_out = NoResult
    /\ exported = NoExport
    /\ RunIdle

CacheHitCall ==
    /\ pc = "c_call"
    /\ c_out' = _is_cache_hit(c_in.entry, c_in.stat, c_in.a)
    /\ pc' = "c_done"
    /\ UNCHANGED <<h_in, h_out, c_in, exported, runVars>>

NextCacheHit == CacheHitCall

SpecCacheHit == InitCacheHit /\ [][NextCacheHit]_vars

(***************************************************************************)
(* One run on every kind of cache file: missing, well formed (complete or  *)
(* partial), malformed in each way json.load can deliver, not writable;    *)
(* with the cache configured and not configured.                           *)
(***************************************************************************)
\* the entries a run with these arguments writes for the files of S
EntriesWritten(a, f, S) ==
    LET rec(p) == [path |-> p, size |-> f[p].size]
        ok == {p \in S : HashResult(a, f, rec(p)).success /\ StatAt(f[p]).ok}
    IN  [p \in ok |-> NewEntry(a, HashResult(a, f, rec(p)), StatAt(f[p]))]

\* the cache files a run can find; one has entries without their key 'md5'
CacheIOFiles(a, f) ==
    LET WithoutDigest(entries) ==
            [p \in DOMAIN entries |-> [entries[p] EXCEPT !.md5 = NoMd5]]
    IN
    {[NoCacheFile EXCEPT !.writable = w] : w \in BOOLEAN}
    \cup {[CacheFileOf(EntriesWritten(a, f, Paths)) EXCEPT !.writable = w] : w \in BOOLEAN}
    \cup {CacheFileOf(EntriesWritten(a, f, {2})),
          CacheFileOf(WithoutDigest(EntriesWritten(a, f, Paths))),
          CacheFileOf(EntriesList),
          [CacheFileOf(<<>>) EXCEPT !.form = "notjson"],
          [CacheFileOf(<<>>) EXCEPT !.form = "list"]}

InitCacheIO ==
    /\ args \in {Args("MD5", mm, 4096, 0, ht, 0, FALSE, mc, "ok", <<"/r1", "/r2">>) :
                    mm \in {"DEFAULT", "MD5SUM"}, ht \in {0, 2}, mc \in BOOLEAN}
    /\ fs \in {f \in Trees : \A p \in Paths : f[p].tail = 1}
    /\ cacheFile \in CacheIOFiles(args, fs)
    /\ pc = "scan"
    /\ RunStart
    /\ PureIdle

SpecCacheIO == InitCacheIO /\ [][Next]_vars

(***************************************************************************)
(* One run in every comparison mode, hashing mode and traversal strategy,  *)
(* recognized or not ("OTHER"), on trees whose files may be absent.        *)
(***************************************************************************)
InitModes ==
    /\ args \in {[Args(cm, mm, 4096, 0, ht, 0, FALSE, FALSE, "ok", dirs)
                    EXCEPT !.find_mode = fm] :
                    cm \in CompareModes \cup {"OTHER"}, mm \in {"DEFAULT", "OTHER"},
                    fm \in {"DEFAULT", "OTHER"}, ht \in {0, 2},
                    dirs \in {<<"/r1", "/r2">>, <<"/r1/sub", "/r1">>}}
    /\ fs \in {f \in [Paths -> {[File(sz, h, 1, "ok") EXCEPT !.exists = e] :
                                  sz \in {5000, 6000}, h \in {1, 2}, e \in BOOLEAN}] :
                 /\ f[1].exists /\ f[1].size = 5000 /\ f[1].head = 1
                 /\ \A p \in Paths : ~f[p].exists => (f[p].size = 5000 /\ f[p].head = 1)}
    /\ cacheFile = NoCacheFile
    /\ pc = "scan"
    /\ RunStart
    /\ PureIdle

NextModes == Next \/ StartNameModes \/ GroupByFileId \/ FinishNames

SpecModes == InitModes /\ [][NextModes]_vars

(***************************************************************************)
(* One content-mode run on a tree in which one file fails: it cannot be    *)
(* read, it is deleted before or after it was probed, or its name makes    *)
(* the hashing task raise or the md5sum command line run another command.  *)
(***************************************************************************)
InitFaults ==
    /\ args \in {Args("MD5", mm, 4096, 0, ht, 0, rs, FALSE, "ok", <<"/r1", "/r2">>) :
                    mm \in {"DEFAULT", "MD5SUM"}, ht \in {0, 2}, rs \in BOOLEAN}
    /\ fs \in {f \in [Paths -> {File(sz, h, 1, ft) :
                                  sz \in {5000, 6000}, h \in {1, 2},
                                  ft \in {"ok", "unreadable", "vanished", "gone",
                                          "badname", "quoted"}}] :
                 /\ f[1].size = 5000 /\ f[1].head = 1
                 /\ \A p \in Paths : p # 2 => f[p].fate = "ok"}
    /\ cacheFile = NoCacheFile
    /\ pc = "scan"
    /\ RunStart
    /\ PureIdle

SpecFaults == InitFaults /\ [][Next]_vars

(***************************************************************************)
(* One content-mode run of the in-process and of the external hasher on    *)
(* files of one size, for several block sizes and byte caps (in KB).       *)
(***************************************************************************)
InitCap ==
    /\ args \in {Args("MD5", mm, bs, ms, ht, 0, FALSE, FALSE, "ok", <<"/r1", "/r2">>) :
                    mm \in {"DEFAULT", "MD5SUM"}, bs \in {0, 1024, 3072, 8192},
                    ms \in {0, 1, 4, 8}, ht \in {0, 2}}
    /\ fs \in {[p \in Paths |-> File(sz, c[p][1], c[p][2], "ok")] :
                  sz \in {3000, 4096, 5000, 9000},
                  c \in {x \in [Paths -> {<<1, 1>>, <<1, 2>>, <<2, 1>>}] : x[1] = <<1, 1>>}}
    /\ cacheFile = NoCacheFile
    /\ pc = "scan"
    /\ RunStart
    /\ PureIdle

SpecCap == InitCap /\ [][Next]_vars

(***************************************************************************)
(* A content-mode run with the cache enabled while another process writes  *)
(* to the tree: the write falls between the return of the hashing call     *)
(* (with its stability check, lines 415-430) and the os.stat that fills    *)
(* the cache entry (lines 1047 and 1097).                                  *)
(***************************************************************************)
HashWhileWritten ==
    /\ pc = "hash"
    /\ \E k \in (1..Len(files_needing_hash)) \ collected :
          LET p == files[files_needing_hash[k]].path
          IN  /\ UsePool \/ k = Cardinality(collected) + 1
              /\ fs[p].fate = "ok"
              /\ \E w \in {[fs[p] EXCEPT !.head = 3 - fs[p].head,
                                         !.mtime_ns = fs[p].mtime_ns + 1024],
                           [fs[p] EXCEPT !.size = 11000 - fs[p].size,
                                         !.mtime_ns = fs[p].mtime_ns + 1024]} :
                    HandleResultAt(k, UsePool, [fs EXCEPT ![p] = w])
    /\ UNCHANGED <<args, cacheFile, run, todo, files_needing_hash, unique_by_size,
                   cache_hits, cache_misses, lookups, prev, pureVars>>

InitWriter ==
    /\ args \in {Args("MD5", mm, 4096, 0, ht, 0, rs, TRUE, "ok", <<"/r1", "/r2">>) :
                    mm \in {"DEFAULT", "MD5SUM"}, ht \in {0, 2}, rs \in BOOLEAN}
    /\ fs \in {f \in [Paths -> {File(sz, h, 1, "ok") : sz \in {5000, 6000}, h \in {1, 2}}] :
                 f[1].size = 5000 /\ f[1].head = 1}
    /\ cacheFile = NoCacheFile
    /\ pc = "scan"
    /\ RunStart
    /\ PureIdle

NextWriter == Next \/ HashWhileWritten

SpecWriter == InitWriter /\ [][NextWriter]_vars

(***************************************************************************)
(* A content-mode run on a cache file that an earlier run wrote on the     *)
(* same, unmodified tree under another configuration (hashing mode, block  *)
(* size, byte cap).                                                        *)
(***************************************************************************)
InitConfig ==
    LET Configs == {Args("MD5", mm, bs, ms, ht, 0, FALSE, TRUE, "ok", <<"/r1", "/r2">>) :
                       mm \in {"DEFAULT", "MD5SUM"}, bs \in {1024, 3072},
                       ms \in {0, 4}, ht \in {0, 2}}
    IN  /\ args \in Configs
        /\ fs \in {[p \in Paths |-> File(sz, 1, c[p], "ok")] :
                      sz \in {5000, 9000}, c \in {x \in [Paths -> {1, 2}] : x[1] = 1}}
        /\ cacheFile \in {CacheFileOf(EntriesWritten(a0, fs, Paths)) : a0 \in Configs}
        /\ pc = "scan"
        /\ RunStart
        /\ PureIdle

SpecConfig == InitConfig /\ [][Next]_vars

(***************************************************************************)
(* A content-mode run on a tree of one file more, so that two size groups  *)
(* of two files each can go to the hash phase.                             *)
(***************************************************************************)
InitSizes ==
    /\ args \in {Args("MD5", mm, bs, ms, ht, 0, FALSE, FALSE, "ok", <<"/r1", "/r2">>) :
                    mm \in {"DEFAULT", "MD5SUM"}, bs \in {0, 1024},
                    ms \in {0, 4}, ht \in {0, 2}}
    /\ fs \in {f \in [1..(MaxPaths + 1) ->
                        {File(sz, h, 1, "ok") : sz \in {5000, 6000}, h \in {1, 2}}] :
                 f[1].size = 5000 /\ f[1].head = 1}
    /\ cacheFile = NoCacheFile
    /\ pc = "scan"
    /\ RunStart
    /\ PureIdle

SpecSizes == InitSizes /\ [][Next]_vars

(***************************************************************************)
(* A content-mode run under every combination of the general and the       *)
(* hash-specific pool size.                                                *)
(***************************************************************************)
InitPool ==
    /\ args \in {Args("MD5", mm, 4096, 0, ht, th, FALSE, FALSE, "ok", <<"/r1", "/r2">>) :
                    mm \in {"DEFAULT", "MD5SUM"}, ht \in {0, 1, 2}, th \in {0, 2}}
    /\ fs \in Trees
    /\ cacheFile = NoCacheFile
    /\ pc = "scan"
    /\ RunStart
    /\ PureIdle

SpecPool == InitPool /\ [][Next]_vars

(***************************************************************************)
(* A content-mode run whose scan is given inclusion patterns: none, an     *)
(* empty list, or one or two patterns of which some occur in the names of  *)
(* directories only.                                                       *)
(***************************************************************************)
IncludePatterns == {<<>>, <<"a">>, <<"b">>, <<".">>, <<"r">>, <<"s", "u", "b">>}

InitPatterns ==
    /\ args \in {[Args("MD5", "DEFAULT", 4096, 0, ht, 0, FALSE, FALSE, "ok", dirs)
                    EXCEPT !.include_patterns = ips] :
                    ht \in {0, 2}, dirs \in {<<"/r1", "/r2">>, <<"/r1/sub", "/r2">>},
                    ips \in {NoPatterns, PatternList(<<>>)}
                            \cup {PatternList(<<x>>) : x \in IncludePatterns}
                            \cup {PatternList(<<<<".">>, <<"b">>>>),
                                  PatternList(<<<<"r">>, <<"a">>>>)}}
    /\ fs \in Trees
    /\ cacheFile = NoCacheFile
    /\ pc = "scan"
    /\ RunStart
    /\ PureIdle

SpecPatterns == InitPatterns /\ [][Next]_vars

(***************************************************************************)
(* The exporters, called on the group map that the engine returned.        *)
(***************************************************************************)
\* Lines 1255-1320: the delete commands of the script, one per record of
\* every group of two or more; that of the first record of a group is
\* written as a comment.  A line is known by its group and its position.
export_cleanup_to_script(df, fl) ==
    {[group |-> kn[1], n |-> kn[2], active |-> kn[2] # 1,
      path |-> fl[df[kn[1]][kn[2]]].path] :
        kn \in {x \in (DOMAIN df) \X (1..Len(fl)) :
                   Len(df[x[1]]) > 1 /\ x[2] <= Len(df[x[1]])}}

\* Lines 1171-1186: the groups of two or more, written with json.dump,
\* which raises TypeError on the tuple keys of name+size mode
save_duplicates_to_json(a, df) ==
    LET real_duplicates == {k \in DOMAIN df : Len(df[k]) > 1}
    IN  IF a.compare_mode = "NAMESIZE" /\ real_duplicates # {}
        THEN [exc |-> "TypeError", groups |-> <<>>]
        ELSE [exc |-> "", groups |-> [k \in real_duplicates |-> df[k]]]

\* Lines 1202-1218: the groups of one record; nothing is written when
\* there is none
save_uniques_to_json(a, df) ==
    LET real_uniques == {k \in DOMAIN df : Len(df[k]) = 1}
    IN  IF a.compare_mode = "NAMESIZE" /\ real_uniques # {}
        THEN [exc |-> "TypeError", groups |-> <<>>]
        ELSE [exc |-> "", groups |-> [k \in real_uniques |-> df[k]]]

ExportCleanup ==
    /\ pc = "done"
    /\ "script" \notin exported.done
    /\ exported' = [exported EXCEPT !.done = @ \cup {"script"},
                        !.script = export_cleanup_to_script(duplicate_files, files)]
    /\ UNCHANGED <<pc, h_in, h_out, c_in, c_out, runVars>>

SaveDuplicates ==
    /\ pc = "done"
    /\ "duplicates" \notin exported.done
    /\ LET r == save_duplicates_to_json(args, duplicate_files)
       IN  /\ exported' = [exported EXCEPT !.done = @ \cup {"duplicates"},
                               !.duplicates = r.groups]
           /\ pc' = IF r.exc # "" THEN "crashed" ELSE "done"
    /\ UNCHANGED <<h_in, h_out, c_in, c_out, runVars>>

SaveUniques ==
    /\ pc = "done"
    /\ "uniques" \notin exported.done
    /\ LET r == save_uniques_to_json(args, duplicate_files)
       IN  /\ exported' = [exported EXCEPT !.done = @ \cup {"uniques"},
                               !.uniques = r.groups]
           /\ pc' = IF r.exc # "" THEN "crashed" ELSE "done"
    /\ UNCHANGED <<h_in, h_out, c_in, c_out, runVars>>

NextExport == NextModes \/ ExportCleanup \/ SaveDuplicates \/ SaveUniques

SpecExport == InitModes /\ [][NextExport]_vars

(***************************************************************************)
(* Properties.                                                             *)
(***************************************************************************)
Records == 1..Len(files)

InGroup(i, k) == i \in Range(duplicate_files[k])

Grouped(i) == \E k \in DOMAIN duplicate_files : InGroup(i, k)

SameGroup(i, j) == \E k \in DOMAIN duplicate_files : InGroup(i, k) /\ InGroup(j, k)

Skipped(i) == i \in Range(skipped_files)

\* the record went through the hash phase (it was not served by the cache)
SentToHasher(i) == \E k \in collected : files_needing_hash[k] = i

\* the hasher gave the record a digest
GotHashed(i) == SentToHasher(i) /\ files[i].digest.has

SharesSize(i) == \E j \in Records : j # i /\ files[j].size = files[i].size

SameContent(i, j) == ContentOf(fs[files[i].path]) = ContentOf(fs[files[j].path])

\* C1: in content mode with whole-file hashing, two hashed records are in the
\* same group of the returned map if and only if their files have the same
\* content (also when their sizes are equal).
C1_ContentDecidesGroup ==
    (pc = "done" /\ args.md5_max_size = 0) =>
        \A i, j \in Records :
            (i # j /\ GotHashed(i) /\ GotHashed(j)) =>
                (SameContent(i, j) <=> SameGroup(i, j))

\* C2: size groups are built over the records of all roots together; only a
\* path whose size is shared by two discovered records is ever hashed or
\* looked up in the cache, in the scan phase and in the duplicate phase, and a
\* record whose size is unique is in no group of the map.
C2_TriageBeforeHashing ==
    /\ \A p \in hashCalls \cup lookups :
          \E i \in Records : files[i].path = p /\ SharesSize(i)
    /\ \A i \in Records : Grouped(i) => SharesSize(i)
    /\ pc = "done" =>
          \A i \in Records : SharesSize(i) => (Grouped(i) \/ Skipped(i))

\* two records of different roots share a group while a third record, alone
\* with its size, was neither hashed nor grouped
C2_Witness ==
    /\ pc = "done"
    /\ \E i, j, z \in Records :
          /\ files[i].root # files[j].root
          /\ SameGroup(i, j)
          /\ ~SharesSize(z)
          /\ ~Grouped(z)
          /\ files[z].path \notin hashCalls

\* the digest the pipeline gives a record when it is not triaged out
Outcome(a, ce, f, rec) ==
    IF CacheServes(a, ce, f, rec)
    THEN [ok |-> TRUE, md5 |-> ce[_get_cache_key(rec)].md5]
    ELSE LET r == HashResult(a, f, rec) IN [ok |-> r.success, md5 |-> r.md5]

\* the reference pipeline: every record is hashed, also those triaged out
RefOutcome(i) ==
    IF Grouped(i) THEN [ok |-> TRUE, md5 |-> files[i].digest.md5]
    ELSE IF Skipped(i) THEN [ok |-> FALSE, md5 |-> EmptyDigest]
    ELSE Outcome(args, cache_entries, fs, files[i])

RefDuplicateSets ==
    {S \in SUBSET Records :
        /\ Cardinality(S) >= 2
        /\ \E i \in S : /\ RefOutcome(i).ok
                        /\ S = {j \in Records : /\ RefOutcome(j).ok
                                                /\ RefOutcome(j).md5 = RefOutcome(i).md5}}

DuplicateSets ==
    {Range(duplicate_files[k]) : k \in {x \in DOMAIN duplicate_files :
                                            Len(duplicate_files[x]) >= 2}}

KeyedSets(sets) == {S \in sets : \A i \in S : RefOutcome(i).md5 # EmptyDigest}

C4_SkippedNeverGrouped == \A i \in Range(skipped_files) : ~Grouped(i)

\* C5: a record whose digest computation failed on every attempt is given no
\* digest and is in no group, in both hashing modes.
C5_FailedNeverGrouped ==
    \A i \in Records :
        (SentToHasher(i) /\ ReadAt(fs[files[i].path], args).kind # "ok") =>
            (~files[i].digest.has /\ ~Grouped(i))

\* C6: an attempt that fails because the file changed during hashing is
\* retried like one that fails with an I/O error: a call that reports such a
\* failure has made all three attempts.
C6_UniformRetry ==
    (pc = "h_done" /\ ~h_out.success /\ h_out.error.kind = "changed") =>
        h_out.tries = max_retries

\* the attempt read the file and, with the stability check, saw it unchanged
AttemptSucceeded(in, t) ==
    LET o == in.io[t]
    IN  /\ o.rd.kind = "ok"
        /\ in.a.require_stable =>
              /\ o.sb.ok /\ o.sa.ok
              /\ o.sb.st_size = o.sa.st_size
              /\ o.sb.st_mtime = o.sa.st_mtime

\* C7: at most 3 digest attempts, the call returns and no I/O error escapes,
\* and it returns success=False with an empty digest exactly when no attempt
\* succeeded.
C7_BoundedAndTotal ==
    pc = "h_done" =>
        /\ h_out.attempts <= 3
        /\ h_out.exc = "none"
        /\ (~h_out.success /\ h_out.md5 = EmptyDigest)
              <=> (\A t \in 1..h_out.tries : ~AttemptSucceeded(h_in, t))

\* the attempt computed a digest and the snapshots around it differ
ChangedDuring(in, t) ==
    LET o == in.io[t]
    IN  /\ o.sb.ok /\ o.sa.ok
        /\ calculate_md5(in.a, o.rd, in.file_size).exc = "none"
        /\ (o.sb.st_size # o.sa.st_size \/ o.sb.st_mtime # o.sa.st_mtime)

\* C8: with the stability check, success is returned only when the (size,
\* mtime) snapshot before the digest attempt equals the one after it; when
\* either changed the attempt returns no digest and the failure carries the
\* before and after values.
C8_StableOrFailed ==
    (pc = "h_done" /\ h_in.a.require_stable) =>
        LET o == h_in.io[h_out.tries]
        IN  /\ h_out.success =>
                  /\ o.sb.ok /\ o.sa.ok
                  /\ o.sb.st_size = o.sa.st_size
                  /\ o.sb.st_mtime = o.sa.st_mtime
            /\ \A t \in 1..h_out.tries :
                  ChangedDuring(h_in, t) =>
                      /\ t = h_out.tries
                      /\ ~h_out.success
                      /\ h_out.md5 = EmptyDigest
                      /\ h_out.error.kind = "changed"
                      /\ h_out.error.before =
                            [size |-> o.sb.st_size, mtime |-> o.sb.st_mtime]
                      /\ h_out.error.after =
                            [size |-> o.sa.st_size, mtime |-> o.sa.st_mtime]

\* a second attempt that saw the modification time change
C8_Witness ==
    /\ pc = "h_done"
    /\ h_in.a.require_stable
    /\ h_out.tries = 2
    /\ h_out.error.kind = "changed"
    /\ h_out.error.before.mtime # h_out.error.after.mtime

\* the prefix-length setting of an entry; an entry without the key counts as 0
EntryMaxSize(e) == IF e.md5_max_size = None THEN 0 ELSE e.md5_max_size

\* C9: _is_cache_hit is true if and only if the entry's size, modification
\* time (the nanosecond value when the entry has one, else the second-precision
\* value), hashing mode and prefix-length setting equal those of the file stat
\* and of the configuration.
C9_HitIffAllEqual ==
    pc = "c_done" =>
        (c_out <=>
            /\ c_in.entry.size = c_in.stat.st_size
            /\ IF c_in.entry.mtime_ns # None
               THEN c_in.entry.mtime_ns = c_in.stat.st_mtime_ns
               ELSE c_in.entry.mtime = c_in.stat.st_mtime
            /\ c_in.entry.md5_mode = c_in.a.md5_mode
            /\ EntryMaxSize(c_in.entry) = c_in.a.md5_max_size)

\* a hit decided on the second-precision modification time
C9_Witness ==
    /\ pc = "c_done"
    /\ c_out
    /\ c_in.entry.mtime_ns = None
    /\ c_in.a.md5_max_size = 4

\* the file has an entry in the cache file the run loaded and its size or
\* modification time differs from that entry
Stale(p) ==
    /\ p \in DOMAIN prev.cache.entries
    /\ fs[p].exists
    /\ \/ prev.cache.entries[p].size # fs[p].size
       \/ prev.cache.entries[p].mtime_ns # fs[p].mtime_ns

SavedEntry(p) == cacheFile.entries[p]

C11_SameMapTwice ==
    (pc = "done" /\ run = 2 /\ fs = prev.fs) =>
        duplicate_files = prev.duplicate_files

\* the record is of a file that got a digest in the first run and whose size
\* and modification time are the same at the second run
DigestedAndUnchanged(i) ==
    LET p == files[i].path
    IN  /\ \E j \in 1..Len(prev.files) :
              prev.files[j].path = p /\ prev.files[j].digest.has
        /\ StatOf(fs[p]) = StatOf(prev.fs[p])

\* the files the first run discovered that are unmodified at the second run
UnmodifiedSinceFirstRun ==
    {p \in {prev.files[j].path : j \in 1..Len(prev.files)} : fs[p] = prev.fs[p]}

\* C12 as stated: in the second run the cache-hit count equals the number of
\* files of the first run that are unmodified at the second run.
C12_HitsAreUnmodifiedFiles ==
    (pc = "done" /\ run = 2) => cache_hits = Cardinality(UnmodifiedSinceFirstRun)

\* C12 amended: in the second run the cache-hit count equals the number of
\* records whose size is shared by another record of that run, whose file got
\* a digest in the first run, and whose size and modification time are
\* unchanged since.
C12_HitsAreUnchangedCandidates ==
    (pc = "done" /\ run = 2) =>
        cache_hits = Cardinality({i \in Records : SharesSize(i) /\ DigestedAndUnchanged(i)})

\* a second run with a hit and, after a modification, fewer hits than files
C12_Witness ==
    /\ pc = "done"
    /\ run = 2
    /\ fs # prev.fs
    /\ cache_hits > 0
    /\ cache_hits < Len(files)

\* C13: with a cache configured, a missing cache file and every malformed one
\* (not JSON, top level not an object, 'entries' not a mapping, an entry
\* without digest) never ends the run: it goes on as a cold start, with no
\* cache hit, and returns a group map.
C13_LoadNeverFatal ==
    LET Malformed(cf) ==
            /\ cf.present
            /\ \/ cf.form # "object"
               \/ ~IsDict(cf.entries)
               \/ \E k \in DOMAIN cf.entries : cf.entries[k].md5 = NoMd5
    IN  (cache_path(args) /\ (~cacheFile.present \/ Malformed(cacheFile))) =>
            /\ pc # "crashed"
            /\ cache_hits = 0

\* C14: when the cache file cannot be written at the end of a content-mode
\* run, the run still ends normally and returns the group map it had built,
\* which no step before the save makes depend on the save; the file is left
\* as it was.
C14_SaveFailureNotFatal ==
    [][(pc = "hash" /\ pc' # "hash" /\ cache_path(args) /\ ~cacheFile.writable) =>
          /\ pc' = "done"
          /\ duplicate_files' = duplicate_files
          /\ cacheFile' = cacheFile]_vars

\* a finished run that found duplicates and could not write its new entries
C14_Witness ==
    /\ pc = "done"
    /\ cache_path(args)
    /\ ~cacheFile.writable
    /\ ~cacheFile.present
    /\ cache_entries # <<>>
    /\ DuplicateSets # {}

\* C15: without a cache path a content-mode run loads no entries, looks
\* nothing up, leaves the cache file alone and sends every candidate to the
\* hasher; the member sets of its groups are those of a run with the cache
\* configured on the same tree, cold, warm or partly warm.
C15_NoCachePath ==
    /\ [](LET Groups == {Range(duplicate_files[k]) : k \in DOMAIN duplicate_files}
              cand == {i \in Records : SharesSize(i)}
              o(ce, i) == Outcome([args EXCEPT !.md5_cache = TRUE], ce, fs, files[i])
              GroupsWithCache(ce) ==
                  {{j \in cand : o(ce, j).ok /\ o(ce, j).md5 = o(ce, i).md5} :
                      i \in {c \in cand : o(ce, c).ok}}
          IN  ~args.md5_cache =>
                /\ cache_entries = <<>>
                /\ lookups = {}
                /\ cache_hits = 0 /\ cache_misses = 0
                /\ pc = "done" =>
                      /\ \A i \in Records :
                            SharesSize(i) =>
                                (SentToHasher(i) /\ files[i].path \in hashCalls)
                      /\ \A S \in {{}, {2}, Paths} :
                            Groups = GroupsWithCache(EntriesWritten(args, fs, S)))
    /\ [][~args.md5_cache => cacheFile' = cacheFile]_vars

\* a finished run without cache path, next to a cache file whose entries
\* would have served its duplicates
C15_Witness ==
    /\ pc = "done"
    /\ ~args.md5_cache
    /\ cacheFile.present /\ cacheFile.form = "object" /\ IsDict(cacheFile.entries)
    /\ \E i, j \in Records :
          /\ i # j /\ SameGroup(i, j)
          /\ CacheServes([args EXCEPT !.md5_cache = TRUE], cacheFile.entries, fs, files[i])

\* C16: in every group of the returned map the records are in first-seen
\* order (root-then-discovery order, the order of the record list), for every
\* pool size and for a cold, warm or partly warm cache.
C16_FirstSeenOrder ==
    pc = "done" =>
        \A k \in DOMAIN duplicate_files :
            \A x, y \in 1..Len(duplicate_files[k]) :
                x < y => duplicate_files[k][x] < duplicate_files[k][y]

\* C17: in name mode and in name+size mode every discovered record is in
\* exactly one group, once, and two records share a group if and only if
\* their base names are equal (name mode) or their base names and sizes are
\* equal (name+size mode), whatever their directory, root or content.
C17_NameModesPartition ==
    (pc = "done" /\ args.compare_mode \in {"NAME", "NAMESIZE"}) =>
        /\ \A i \in Records :
              /\ Cardinality({k \in DOMAIN duplicate_files : InGroup(i, k)}) = 1
              /\ \A k \in DOMAIN duplicate_files :
                    Cardinality({x \in 1..Len(duplicate_files[k]) :
                                    duplicate_files[k][x] = i}) <= 1
        /\ \A i, j \in Records :
              SameGroup(i, j) <=>
                  /\ NameOf(files[i].path) = NameOf(files[j].path)
                  /\ args.compare_mode = "NAMESIZE" => files[i].size = files[j].size

\* name+size mode kept two records of one name and different sizes apart, and
\* put two records of one name and size, found under different roots, in one
\* group
C17_Witness ==
    /\ pc = "done"
    /\ args.compare_mode = "NAMESIZE"
    /\ \E i, j \in Records :
          /\ NameOf(files[i].path) = NameOf(files[j].path)
          /\ files[i].size # files[j].size
          /\ ~SameGroup(i, j)
    /\ \E i, j \in Records :
          /\ files[i].root # files[j].root
          /\ SameGroup(i, j)

\* the discovered records are three files named "a", "a", "b"
ThreeFilesAAB ==
    /\ Len(files) = 3
    /\ [i \in 1..3 |-> NameOf(files[i].path)] = <<"a", "a", "b">>
    /\ \A i, j \in Records : i # j => files[i].path # files[j].path

\* C18 as stated: name mode over X, Y, Z named "a", "a", "b" returns a map
\* with the key "a" and the list [X, Y], and without the key "b".
C18_SingleNameAbsent ==
    (pc = "done" /\ args.compare_mode = "NAME" /\ ThreeFilesAAB) =>
        /\ "a" \in DOMAIN duplicate_files
        /\ duplicate_files["a"] = <<1, 2>>
        /\ "b" \notin DOMAIN duplicate_files

\* C18 amended: the returned map has exactly the keys "a" and "b", with the
\* lists [X, Y] and [Z]; a name carried by one file keeps its group of one.
C18_SingleNameKept ==
    (pc = "done" /\ args.compare_mode = "NAME" /\ ThreeFilesAAB) =>
        /\ DOMAIN duplicate_files = {"a", "b"}
        /\ duplicate_files["a"] = <<1, 2>>
        /\ duplicate_files["b"] = <<3>>

C18_Witness ==
    /\ pc = "done"
    /\ args.compare_mode = "NAME"
    /\ ThreeFilesAAB
    /\ Len(duplicate_files["a"]) = 2

\* C19: with a comparison mode, a hashing mode (in content mode) or a
\* traversal strategy that is not recognized, the run never ends normally
\* with a group map.
C19_UnrecognizedModeFatal ==
    (\/ args.compare_mode \notin CompareModes
     \/ args.compare_mode = "MD5" /\ args.md5_mode \notin {"DEFAULT", "MD5SUM"}
     \/ args.find_mode \notin FindModes) =>
        pc # "done"

\* C20: a failure on one file (gone, unreadable, or a task that raises) never
\* ends the run, in the sequential and in the pooled branch; at the end the
\* candidates that failed are in no group, and every candidate that can be
\* read is in the group of the digest of its content.
C20_ErrorsContained ==
    /\ pc # "crashed"
    /\ pc = "done" =>
          \A i \in Records :
              SharesSize(i) =>
                  LET fl == fs[files[i].path]
                  IN  IF ReadAt(fl, args).kind = "ok" /\ StatAt(fl).ok
                      THEN /\ Md5Of(ContentOf(fl), fl.size) \in DOMAIN duplicate_files
                           /\ InGroup(i, Md5Of(ContentOf(fl), fl.size))
                      ELSE ~Grouped(i)

\* C21: with the in-process hasher and a byte cap of N kilobytes, two hashed
\* files of the same size whose first N kilobytes agree are in the same
\* group, whatever their remaining bytes, and the key of a group is the
\* digest alone.
C21_CappedDigestDecides ==
    (pc = "done" /\ args.md5_mode = "DEFAULT" /\ args.md5_max_size > 0) =>
        \A i, j \in Records :
            LET ci == ContentOf(fs[files[i].path])
                cj == ContentOf(fs[files[j].path])
                cap == args.md5_max_size * BytesPerKB
            IN  (GotHashed(i) /\ GotHashed(j) /\ Md5Of(ci, cap) = Md5Of(cj, cap)) =>
                    SameGroup(i, j)

\* C22: with the in-process hasher and a byte cap of N kilobytes, for every
\* file size and block size, the digest of a hashed file covers exactly its
\* first min(size, N*1024) bytes and the recorded bytes-read count is that
\* number.
C22_CapIsExact ==
    (pc = "done" /\ args.md5_mode = "DEFAULT" /\ args.md5_max_size > 0) =>
        \A i \in Records :
            LET fl == fs[files[i].path]
                n == Min(fl.size, args.md5_max_size * BytesPerKB)
            IN  GotHashed(i) =>
                    /\ files[i].digest.md5 = Md5Of(ContentOf(fl), n)
                    /\ files[i].digest.md5_read_size = n

\* C23: the progress callback does not take part in control flow: supplied,
\* absent or raising, the run is never aborted by it, and every file handled
\* by the hash phase is grouped exactly when its hashing succeeded and
\* recorded as skipped exactly when it failed.
C23_ProgressDecoupled ==
    /\ pc # "aborted"
    /\ \A k \in collected :
          LET i == files_needing_hash[k]
              r == HashResult(args, fs, files[i])
          IN  /\ Grouped(i) <=> r.success
              /\ Skipped(i) <=> ~r.success

\* C24: no step of find_files or find_duplicate_files creates, deletes,
\* renames or writes a file under the scanned roots.
C24_EngineOnlyReports == [][fs' = fs]_vars

C26_CacheNeverDrops ==
    [][(/\ args.compare_mode = "MD5" /\ cache_path(args)
        /\ pc \in {"dups", "lookup", "hash"}
        /\ pc' \in {"done", "aborted", "crashed"})
       => LET loaded == load_md5_cache(cacheFile).entries
              keys == IF IsDict(loaded) THEN DOMAIN loaded ELSE {}
          IN  /\ cacheFile' = Written(cacheFile, cache_entries)
              /\ keys \subseteq DOMAIN cacheFile'.entries]_vars

\* C27: in content mode no record is inserted into the group map while a
\* file of the hash phase still waits for its digest: the hash phase inserts
\* only once the last result is in.
C27_AssemblyAfterHashing ==
    [][(/\ args.compare_mode = "MD5"
        /\ pc = "hash"
        /\ duplicate_files' # duplicate_files)
       => collected' = 1..Len(files_needing_hash)]_vars

\* C28: in the pooled hash phase the cache mapping, the group map, the
\* skipped list and the counters change only in the step in which the
\* coordinator collects one completed result, and no update is lost: every
\* collected result has left its record in the group map exactly once (and
\* its entry in the cache mapping) or in the skipped list, also when two
\* tasks hashed the same path.
C28_CoordinatorSerializes ==
    /\ []((UsePool /\ pc \in {"hash", "done"}) =>
            LET Res(k) == HashResult(args, fs, files[files_needing_hash[k]])
                Good(k) == Res(k).exc = "none" /\ Res(k).success
                Places(i) == {kn \in (DOMAIN duplicate_files) \X Records :
                                 /\ kn[2] \in DOMAIN duplicate_files[kn[1]]
                                 /\ duplicate_files[kn[1]][kn[2]] = i}
                Hits == {i \in Records : Grouped(i) /\ ~SentToHasher(i)}
            IN  /\ \A k \in collected :
                      LET i == files_needing_hash[k]
                          st == StatAt(fs[files[i].path])
                      IN  IF Good(k)
                          THEN /\ Cardinality(Places(i)) = 1
                               /\ Res(k).md5 \in DOMAIN duplicate_files
                               /\ InGroup(i, Res(k).md5)
                               /\ (cache_path(args) /\ st.ok) =>
                                     /\ _get_cache_key(files[i]) \in DOMAIN cache_entries
                                     /\ cache_entries[_get_cache_key(files[i])]
                                            = NewEntry(args, Res(k), st)
                          ELSE Skipped(i)
                /\ hashed = Cardinality(Hits) + Cardinality({k \in collected : Good(k)})
                /\ processed >= Cardinality(Hits) + Cardinality(collected)
                /\ Len(skipped_files) >= Cardinality({k \in collected : ~Good(k)}))
    /\ [][(/\ pc = "hash" /\ UsePool
           /\ <<cache_entries, duplicate_files, skipped_files, hashed, processed>>'
                 # <<cache_entries, duplicate_files, skipped_files, hashed, processed>>)
          => \E k \in (1..Len(files_needing_hash)) \ collected :
                collected' = collected \cup {k}]_vars

\* the pool hashed one path twice (it was found under two overlapping
\* roots), the cache is enabled and both records are in the returned group
C28_Witness ==
    /\ pc = "done" /\ UsePool /\ cache_path(args)
    /\ \E k1, k2 \in collected :
          LET i == files_needing_hash[k1]
              j == files_needing_hash[k2]
          IN  /\ k1 # k2
              /\ _get_cache_key(files[i]) = _get_cache_key(files[j])
              /\ SameGroup(i, j)
              /\ _get_cache_key(files[i]) \in DOMAIN cache_entries

\* C29: whatever the per-file operations give, a content-mode run returns
\* (it does not end with an exception), and at return every record of a size
\* group of two or more is either exactly once in exactly one group or in
\* the skipped list, never in both and never in neither.
C29_ReturnsEveryCandidate ==
    args.compare_mode = "MD5" =>
        /\ pc \notin {"crashed", "aborted"}
        /\ pc = "done" =>
              \A i \in Records :
                  LET places == {kn \in (DOMAIN duplicate_files) \X Records :
                                    /\ kn[2] \in DOMAIN duplicate_files[kn[1]]
                                    /\ duplicate_files[kn[1]][kn[2]] = i}
                  IN  SharesSize(i) =>
                          /\ Cardinality(places) <= 1
                          /\ (Cardinality(places) = 1) <=> ~Skipped(i)

\* C30: the pooled and the sequential hash phase return the same group map
\* up to order within groups and the same skipped set: whatever hash_threads
\* is, the run returns, each record whose hashing succeeded is in the group
\* of its digest and each record whose hashing failed is in the skipped list.
C30_PoolAndLoopAgree ==
    (args.compare_mode = "MD5" /\ pc \in {"done", "aborted", "crashed"}) =>
        /\ pc = "done"
        /\ \A i \in Range(files_needing_hash) :
              LET r == HashResult(args, fs, files[i])
              IN  IF r.exc = "none" /\ r.success
                  THEN /\ r.md5 \in DOMAIN duplicate_files
                       /\ InGroup(i, r.md5)
                       /\ ~Skipped(i)
                  ELSE Skipped(i) /\ ~Grouped(i)

\* C31: every cache entry written by a run pairs its digest with the size
\* and modification time of the file state that has this digest: an entry
\* whose size and modification time are those of the file as it is now
\* holds the digest of the file as it is now, so that no later run is
\* served a digest that does not match the file.
C31_EntryMatchesFileState ==
    (cache_path(args) /\ pc \in {"hash", "done"}) =>
        \A i \in Records :
            LET key == _get_cache_key(files[i])
                fl == fs[files[i].path]
                e == cache_entries[key]
            IN  (/\ key \in DOMAIN cache_entries
                 /\ fl.fate = "ok"
                 /\ _is_cache_hit(e, StatAt(fl), args)) =>
                    e.md5 = calculate_md5(args, ReadAt(fl, args), files[i].size).md5

\* C32: for an unmodified file, the digest that the cache serves is the
\* digest that hashing the file under the configuration of this run gives,
\* whatever the configuration of the run that wrote the entry was.
C32_ServedIsRecomputed ==
    (cache_path(args) /\ pc \in {"lookup", "hash", "done"}) =>
        \A i \in Records :
            (Grouped(i) /\ i \notin Range(files_needing_hash) /\ i \notin Range(todo)) =>
                files[i].digest.md5 = HashResult(args, fs, files[i]).md5

\* C33: in content mode all records of one returned group have the same
\* file size, for every configuration.
C33_GroupHasOneSize ==
    (args.compare_mode = "MD5" /\ pc = "done") =>
        \A i, j \in Records : SameGroup(i, j) => files[i].size = files[j].size

\* C34: no returned group holds the same file (the same absolute path)
\* more than once, whatever the list of roots is.
C34_NoFileTwiceInGroup ==
    pc = "done" =>
        \A i, j \in Records :
            (i # j /\ SameGroup(i, j)) => files[i].path # files[j].path

\* C35: the cleanup script keeps one copy per duplicate group: the path of
\* the first record of every group of two or more has no active delete
\* command anywhere in the script, and every later record of the group has
\* exactly one active delete command.
C35_ScriptKeepsFirst ==
    "script" \in exported.done =>
        \A k \in DOMAIN duplicate_files :
            LET g == duplicate_files[k]
                Active(p) == {l \in exported.script : l.active /\ l.path = p}
            IN  Len(g) > 1 =>
                    /\ Active(files[g[1]].path) = {}
                    /\ \A n \in 2..Len(g) : Cardinality(Active(files[g[n]].path)) = 1

\* C38: the two JSON exports split the group map by size of group: the
\* duplicate export writes exactly the groups of two or more records, the
\* unique export exactly the groups of one record, no group is in both and
\* every group is in one of them.
C38_ExportsSplitMap ==
    LET Groups(S) == [k \in S |-> duplicate_files[k]]
        multi == {k \in DOMAIN duplicate_files : Len(duplicate_files[k]) > 1}
        single == {k \in DOMAIN duplicate_files : Len(duplicate_files[k]) = 1}
    IN  /\ "duplicates" \in exported.done => exported.duplicates = Groups(multi)
        /\ "uniques" \in exported.done => exported.uniques = Groups(single)
        /\ {"duplicates", "uniques"} \subseteq exported.done =>
              /\ DOMAIN exported.duplicates \cap DOMAIN exported.uniques = {}
              /\ DOMAIN exported.duplicates \cup DOMAIN exported.uniques
                    = DOMAIN duplicate_files

\* C36: the hash phase handles results out of candidate order (it uses the
\* pool) only when the effective hash pool size is above 0, the effective
\* size being hash_threads when that is not 0 and threads otherwise; with an
\* effective size of 0 every step of the hash phase handles the next file
\* of the candidate order.
C36_PoolOnlyWhenEnabled ==
    [][(pc = "hash" /\ collected' # collected) =>
          LET effective == IF args.hash_threads # 0 THEN args.hash_threads
                           ELSE args.threads
          IN  \E k \in (1..Len(files_needing_hash)) \ collected :
                 /\ collected' = collected \cup {k}
                 /\ k # Cardinality(collected) + 1 => effective > 0]_vars

\* the pool took its size from the general setting and handled a later
\* candidate before the first one
C36_Witness ==
    /\ pc = "hash"
    /\ args.hash_threads = 0 /\ args.threads > 0
    /\ collected # {} /\ 1 \notin collected

\* C37: the 'dups' progress events of a run carry a processed count that
\* never exceeds total and never decreases, the events before the last
\* one come at multiples of 250 processed results, and a run with a progress
\* callback ends with one final event whose processed count equals total.
C37_ProgressEvents ==
    LET n == Len(events)
        ended == pc \in {"done", "aborted", "crashed"}
        offset == IF args.compare_mode = "MD5" THEN unique_by_size ELSE 0
        AtInterval(e) == /\ e.processed - offset > 0
                         /\ (e.processed - offset) % ProgressInterval = 0
    IN  /\ \A k \in 1..n : events[k].processed <= events[k].total
        /\ \A k \in 1..(n - 1) : events[k].processed <= events[k + 1].processed
        /\ \A k \in 1..n : (k < n \/ ~ended) => AtInterval(events[k])
        /\ (ended /\ args.progress_cb # "none") =>
              /\ n >= 1
              /\ events[n].processed = events[n].total
              /\ events[n].total = Len(files)

\* C39: after the in-process scan, a file under a root is a candidate of
\* that root if and only if no inclusion patterns are given (none at all or
\* an empty list) or its base name matches at least one pattern; a file
\* whose directory names alone hold a pattern is not a candidate.
C39_CandidateIffNameMatches ==
    LET ips == args.include_patterns.list
        NoneGiven == ~args.include_patterns.given \/ ips = <<>>
        MatchedBy(name) ==
            \E k \in 1..Len(ips) : re_search(normalized_ip(ips[k]), name)
        IsUnder(q, root) ==
            \E d \in 1..Len(DirsUnder(root)) : DirsUnder(root)[d] = DirOf(q)
        Candidate(q, root) ==
            \E i \in Records : files[i].path = q /\ files[i].root = root
    IN  (pc \notin {"scan", "crashed"}) =>
            \A q \in DOMAIN fs, r \in 1..Len(args.directories) :
                LET root == args.directories[r]
                IN  (fs[q].exists /\ fs[q].fate # "gone" /\ IsUnder(q, root)) =>
                        /\ Candidate(q, root) <=>
                              (NoneGiven \/ MatchedBy(Chars(NameOf(q))))
                        /\ (~NoneGiven /\ ~MatchedBy(Chars(NameOf(q)))
                              /\ MatchedBy(Chars(DirOf(q)))) => ~Candidate(q, root)

====
